---- MODULE Spec2Model ----
(***************************************************************************)
(* Finite-difference PDE examples of the notebook (1-D heat by forward     *)
(* Euler, 1-D wave by CTCS and 2-D wave by CTCS): grid construction, the   *)
(* explicit time loop, assembly of the linear system equation by equation, *)
(* and the direct solve.                                                   *)
(*                                                                         *)
(* The variables are the notebook kernel's globals.  Each code cell of an  *)
(* example is one action; an example is run top to bottom.  Python floats  *)
(* are modelled as exact rationals <<numerator, denominator>>, so the      *)
(* model says nothing about rounding.                                      *)
(***************************************************************************)
EXTENDS Integers, Sequences, FiniteSets, TLC

(***************************************************************************)
(* Bounds of the model.                                                    *)
(***************************************************************************)
\* Largest number of samples per axis in the 1-D example.
MaxN == 3
\* Largest number of samples per axis in the 2-D example.
MaxN2 == 3
\* Largest number of unknowns for which the dense direct solve is run.
MaxUnknowns == 16
\* Largest number of time samples in the heat example.
MaxNtHeat == 4
\* Largest number of space samples in the heat example.
MaxNxHeat == 4
\* Largest number of samples per axis among the degenerate grids.
MaxNDegenerate == 3
\* Largest number of times the user leaves the top-to-bottom order.
MaxJumps == 1
\* Largest number of examples run before the one that is running.
MaxRuns == 1
\* Largest number of samples per axis when examples are run in sequence.
MaxNSeq == 3

(***************************************************************************)
(* Exact rational arithmetic standing for Python float arithmetic.         *)
(***************************************************************************)
Abs(n) == IF n < 0 THEN -n ELSE n

RECURSIVE GCD(_, _)
GCD(a, b) == IF b = 0 THEN a ELSE GCD(b, a % b)

\* The rational n/d in lowest terms with a positive denominator (d # 0).
Rat(n, d) ==
    LET g == GCD(Abs(n), Abs(d))
        s == IF d < 0 THEN -1 ELSE 1
    IN  <<(s * n) \div g, (s * d) \div g>>

RInt(n) == <<n, 1>>
RZero == <<0, 1>>
ROne == <<1, 1>>
RAdd(a, b) ==
    LET g == GCD(a[2], b[2])
    IN  Rat(a[1] * (b[2] \div g) + b[1] * (a[2] \div g), (a[2] \div g) * b[2])
RNeg(a) == <<-a[1], a[2]>>
RSub(a, b) == RAdd(a, RNeg(b))
RMul(a, b) ==
    LET g1 == GCD(Abs(a[1]), b[2])
        g2 == GCD(Abs(b[1]), a[2])
    IN  Rat((a[1] \div g1) * (b[1] \div g2), (a[2] \div g2) * (b[2] \div g1))
\* Python's a / b for b # 0 (b = 0 raises ZeroDivisionError in the code).
RDiv(a, b) == RMul(a, IF b[1] < 0 THEN <<-b[2], -b[1]>> ELSE <<b[2], b[1]>>)
RAbs(a) == <<Abs(a[1]), a[2]>>
RLess(a, b) == a[1] * b[2] < b[1] * a[2]

(***************************************************************************)
(* Python helpers.                                                         *)
(***************************************************************************)
\* range(a, b) as a sequence.
Range(a, b) == [n \in 1..(IF b > a THEN b - a ELSE 0) |-> a + n - 1]

\* A negative index counts from the end of the axis, as in mat[i,-1].
PyIdx(n, len) == IF n < 0 THEN n + len ELSE n

\* np.linspace(a, b, n)[m] for n >= 2: a + m*(b-a)/(n-1).
Linspace(a, b, n) ==
    [m \in 0..(n - 1) |->
        IF n = 1 THEN a
        ELSE RAdd(a, RDiv(RMul(RInt(m), RSub(b, a)), RInt(n - 1)))]

\* The concatenation of a sequence of sequences.
RECURSIVE Concat(_)
Concat(ss) == IF ss = << >> THEN << >> ELSE Head(ss) \o Concat(Tail(ss))

\* The loop variables of "for a in ra: for b in rb:" in execution order.
Loop2(ra, rb) ==
    Concat([m \in 1..Len(ra) |-> [n \in 1..Len(rb) |-> <<ra[m], rb[n]>>]])

\* The loop variables of a triple nested loop in execution order.
Loop3(ra, rb, rc) ==
    Concat([m \in 1..Len(ra) |->
        Concat([n \in 1..Len(rb) |->
            [p \in 1..Len(rc) |-> <<ra[m], rb[n], rc[p]>>]])])

(***************************************************************************)
(* State: the kernel's globals.                                            *)
(***************************************************************************)
VARIABLES
    example,    \* which example's cells are being run: "heat", "wave1d"
                \* or "wave2d"
    runs,       \* how many examples have been run to their end before
    jumps,      \* the cells the user re-ran or skipped to, out of order:
                \* a sequence of <<cell left, cell run next>>
    pc,         \* the next cell to run
    i_heat,     \* the loop variable i of the next iteration of the heat loop
    a,          \* diffusion coefficient of the heat example
    N_t, N_x, N_y,          \* samples per axis (N_y = 1 in the 1-D example)
    c, t_f, x_1, x_2, y_1, y_2, \* coefficient and domain
    h_1, h_2,   \* spatial boundary values
    g_0, g_1, f,            \* initial value, initial velocity, source term,
                            \* each the coefficients of a member of a small
                            \* family of functions
    dx, dy, dt, \* step sizes
    x, y, t,    \* coordinate arrays
    u,          \* the solution array
    eqs, col,   \* the equations (coefficient arrays) and right-hand sides
    tag         \* history: for each equation, the loop that appended it
                \* and the loop variables at that moment

params == <<N_t, N_x, N_y, a, c, t_f, x_1, x_2, y_1, y_2, h_1, h_2, g_0, g_1, f>>
grid == <<dx, dy, dt, x, y, t>>
vars == <<example, runs, jumps, pc, i_heat, params, grid, u, eqs, col, tag>>

\* A global that no cell has assigned yet.
Unset == << >>

(***************************************************************************)
(* The lambdas of the parameter cells.  The notebook invites editing them; *)
(* the model draws each from a small family of rational functions.         *)
(***************************************************************************)
\* g_0 = lambda x: ...            (g_0 = <<a, b>> stands for a + b*x)
G0(xv) == RAdd(RInt(g_0[1]), RMul(RInt(g_0[2]), xv))
\* g_0 = lambda x,y: ...          (a + b*x + 2*b*y)
G0xy(xv, yv) == RAdd(G0(xv), RMul(RInt(2 * g_0[2]), yv))
\* g_1 = lambda x: ...            (g_1 = <<a>> stands for the constant a)
G1(xv) == RInt(g_1[1])
G1xy(xv, yv) == RInt(g_1[1])
\* f = lambda t,x: ...            (f = <<a>> stands for a*(1 + t + 2*x))
F(tv, xv) == RMul(RInt(f[1]), RAdd(ROne, RAdd(tv, RMul(RInt(2), xv))))
\* f = lambda t,x,y: ...          (a*(1 + t + 2*x + 4*y))
Fxy(tv, xv, yv) == RAdd(F(tv, xv), RMul(RInt(4 * f[1]), yv))

(***************************************************************************)
(* Parameter cells.  Init is the kernel after the parameter and mesh cells *)
(* of one example have run; nothing else is assigned yet.                  *)
(***************************************************************************)
\* Values offered for h_1, h_2 and for the coefficients of g_0, g_1 and f.
Vals == {0, 1}
\* Values offered for the wave speed c.
CVals == {<<1, 2>>, <<1, 1>>}
\* Values offered for the final time t_f.
TfVals == {RInt(6), RInt(12)}
\* Values offered for the diffusion coefficient a.
AVals == {<<1, 2>>, <<1, 1>>}

Init ==
    /\ example \in {"heat", "wave1d", "wave2d"}
    /\ runs = 0
    /\ jumps = << >>
    /\ pc = "grid"
    /\ i_heat = 0
    /\ N_t \in 2..(IF example = "heat" THEN MaxNtHeat
                   ELSE IF example = "wave1d" THEN MaxN ELSE MaxN2)
    /\ N_x \in 2..(IF example = "heat" THEN MaxNxHeat
                   ELSE IF example = "wave1d" THEN MaxN ELSE MaxN2)
    /\ N_y \in IF example = "wave2d" THEN 2..MaxN2 ELSE {1}
    /\ a \in IF example = "heat" THEN AVals ELSE {Unset}
    /\ c \in IF example = "heat" THEN {Unset} ELSE CVals
    /\ t_f \in TfVals
    /\ x_1 = RInt(-3)
    /\ x_2 = RInt(3)
    /\ y_1 = RInt(-3)
    /\ y_2 = RInt(3)
    /\ h_1 \in Vals
    /\ h_2 \in Vals
    /\ g_0 \in {<<0, 0>>, <<1, 1>>}
    /\ g_1 \in IF example = "heat" THEN {Unset} ELSE {<<v>> : v \in Vals}
    /\ f \in {<<v>> : v \in Vals}
    /\ dx = Unset /\ dy = Unset /\ dt = Unset
    /\ x = Unset /\ y = Unset /\ t = Unset
    /\ u = Unset
    /\ eqs = Unset /\ col = Unset /\ tag = Unset

(***************************************************************************)
(* 1-D wave equation                                                       *)
(***************************************************************************)
\* The index set of an (N_t, N_x) array.
Idx2 == (0..(N_t - 1)) \X (0..(N_x - 1))
\* np.zeros((N_t, N_x))
Zeros2 == [k \in Idx2 |-> RZero]
\* The array position that mat[i,j] names.
At2(i, j) == <<PyIdx(i, N_t), PyIdx(j, N_x)>>
\* mat[k] += v
AddAt(mat, k, v) == [mat EXCEPT ![k] = RAdd(@, v)]
\* mat[k] = v
SetAt(mat, k, v) == [mat EXCEPT ![k] = v]

\* np.array(list): the same items, counted from 0.
NpArray(list) == [r \in 0..(Len(list) - 1) |-> list[r + 1]]
\* eqs and col are Python lists until the solve cell rebinds them to numpy
\* arrays.  (An empty array is not told apart from an empty list; no cell
\* runs on one.)
IsNdarray(e) == 0 \in DOMAIN e
\* The number of items along the first axis.
Count(e) == IF IsNdarray(e) THEN Cardinality(DOMAIN e) ELSE Len(e)
\* list.append(m) for each m of more, in order.  A numpy array has no
\* append: the first call raises AttributeError and nothing is added.
Extend(list, more) == IF IsNdarray(list) THEN list ELSE list \o more

\* Variant: dt is computed only when no earlier cell has left one.
W1_CreateGrid_KeepsDt ==
    /\ example = "wave1d" /\ pc = "grid"
    /\ dx' = RDiv(RSub(x_2, x_1), RInt(N_x))
    /\ dt' = (IF dt = Unset THEN RDiv(t_f, RInt(N_t)) ELSE dt)
    /\ x' = Linspace(x_1, x_2, N_x)
    /\ t' = Linspace(RZero, t_f, N_t)
    /\ u' = Zeros2
    /\ pc' = "init"
    /\ UNCHANGED <<example, runs, jumps, i_heat, params, dy, y, eqs, col, tag>>

\* "Create the grid" cell.
W1_CreateGrid ==
    /\ example = "wave1d" /\ pc = "grid"
    /\ dx' = RDiv(RSub(x_2, x_1), RInt(N_x))
    /\ dt' = RDiv(t_f, RInt(N_t))
    /\ x' = Linspace(x_1, x_2, N_x)
    /\ t' = Linspace(RZero, t_f, N_t)
    /\ u' = Zeros2
    /\ pc' = "init"
    /\ UNCHANGED <<example, runs, jumps, i_heat, params, dy, y, eqs, col, tag>>

\* "Initialize the equations and vector" cell.
W1_InitEqs ==
    /\ example = "wave1d" /\ pc = "init"
    /\ col' = << >>
    /\ eqs' = << >>
    /\ tag' = << >>
    /\ pc' = "stencil"
    /\ UNCHANGED <<example, runs, jumps, i_heat, params, grid, u>>

\* Variant: the time loop starts one row late.
W1_StencilLoop_LateStart == Loop2(Range(2, N_t - 1), Range(1, N_x - 1))

\* Variant: the time loop starts at row 0, so that mat[i-1,j] names row -1.
W1_StencilLoop_FromRowZero == Loop2(Range(0, N_t - 1), Range(1, N_x - 1))

\* The loop variables (i, j) of the differential-equation loop.
W1_StencilLoop == Loop2(Range(1, N_t - 1), Range(1, N_x - 1))

\* Variant: the time difference is divided by dt once.
W1_StencilMat_SingleDt(i, j) ==
    LET m0 == Zeros2
        m1 == AddAt(m0, At2(i, j), RDiv(RInt(-2), dt))
        m2 == AddAt(m1, At2(i - 1, j), RDiv(ROne, dt))
        m3 == AddAt(m2, At2(i + 1, j), RDiv(ROne, dt))
        cc == RDiv(RDiv(RMul(c, c), dx), dx)
        m4 == AddAt(m3, At2(i, j), RMul(cc, RInt(2)))
        m5 == AddAt(m4, At2(i, j + 1), RNeg(cc))
        m6 == AddAt(m5, At2(i, j - 1), RNeg(cc))
    IN  m6

\* The coefficient array built in the loop body for (i, j).
W1_StencilMat(i, j) ==
    LET m0 == Zeros2
        m1 == AddAt(m0, At2(i, j), RDiv(RDiv(RInt(-2), dt), dt))
        m2 == AddAt(m1, At2(i - 1, j), RDiv(RDiv(ROne, dt), dt))
        m3 == AddAt(m2, At2(i + 1, j), RDiv(RDiv(ROne, dt), dt))
        cc == RDiv(RDiv(RMul(c, c), dx), dx)
        m4 == AddAt(m3, At2(i, j), RMul(cc, RInt(2)))
        m5 == AddAt(m4, At2(i, j + 1), RNeg(cc))
        m6 == AddAt(m5, At2(i, j - 1), RNeg(cc))
    IN  m6

\* The source value appended to col in the loop body for (i, j).
W1_StencilCol(i, j) == F(t[i], x[j])

\* "differential equation definition" cell.
W1_Stencil ==
    /\ example = "wave1d" /\ pc = "stencil"
    /\ \E lp \in {W1_StencilLoop} :
           /\ eqs' = Extend(eqs, [n \in 1..Len(lp) |-> W1_StencilMat(lp[n][1], lp[n][2])])
           /\ col' = Extend(col, [n \in 1..Len(lp) |-> W1_StencilCol(lp[n][1], lp[n][2])])
           /\ tag' = IF IsNdarray(eqs) THEN tag
                      ELSE tag \o [n \in 1..Len(lp) |-> [kind |-> "stencil", at |-> lp[n]]]
    /\ pc' = IF IsNdarray(eqs) /\ Len(W1_StencilLoop) > 0
               THEN "AttributeError"
               ELSE "ivp"
    /\ UNCHANGED <<example, runs, jumps, i_heat, params, grid, u>>

\* The loop variable j of the "IVP Dirichlet" loop.
W1_DirichletLoop == Range(0, N_x)
W1_DirichletMat(j) == SetAt(Zeros2, At2(0, j), ROne)
\* Variant: the initial condition is sampled one point to the left.
W1_DirichletCol_OffByOne(j) == G0(x[PyIdx(j - 1, N_x)])
W1_DirichletCol(j) == G0(x[j])

\* Variant: the Neumann loop also covers the two boundary columns.
W1_NeumannLoop_AllColumns == Range(0, N_x)

\* The loop variable j of the "IVP Neumann" loop.
W1_NeumannLoop == Range(1, N_x - 1)
W1_NeumannMat(j) ==
    LET m1 == SetAt(Zeros2, At2(0 + 1, j), ROne)
    IN  SetAt(m1, At2(0, j), RNeg(ROne))
W1_NeumannCol(j) == G1(x[j])
\* mat[0+1,j] = 1 raises IndexError in the first Neumann iteration when
\* the time axis has a single sample.
W1_NeumannRaises == Len(W1_NeumannLoop) > 0 /\ N_t < 2

\* "IVP Dirichlet / IVP Neumann" cell.
W1_IVP ==
    /\ example = "wave1d" /\ pc = "ivp"
    /\ \E ld \in {W1_DirichletLoop} :
       \E ln \in {IF W1_NeumannRaises THEN << >> ELSE W1_NeumannLoop} :
           /\ eqs' = Extend(eqs, [n \in 1..Len(ld) |-> W1_DirichletMat(ld[n])]
                         \o [n \in 1..Len(ln) |-> W1_NeumannMat(ln[n])])
           /\ col' = Extend(col, [n \in 1..Len(ld) |-> W1_DirichletCol(ld[n])]
                         \o [n \in 1..Len(ln) |-> W1_NeumannCol(ln[n])])
           /\ tag' = IF IsNdarray(eqs) THEN tag
                      ELSE tag \o [n \in 1..Len(ld) |-> [kind |-> "dirichlet", at |-> <<ld[n]>>]]
                         \o [n \in 1..Len(ln) |-> [kind |-> "neumann", at |-> <<ln[n]>>]]
    /\ pc' = IF IsNdarray(eqs) /\ Len(W1_DirichletLoop) + Len(W1_NeumannLoop) > 0
               THEN "AttributeError"
               ELSE IF W1_NeumannRaises THEN "IndexError" ELSE "bounds"
    /\ UNCHANGED <<example, runs, jumps, i_heat, params, grid, u>>

\* Variant: the boundary loops also cover time index 0.
W1_BoundsLoop_FromZero == Range(0, N_t)

\* The loop variable i of both "Space bounds" loops.
W1_BoundsLoop == Range(1, N_t)
W1_LowerMat(i) == SetAt(Zeros2, At2(i, 0), ROne)
W1_UpperMat(i) == SetAt(Zeros2, At2(i, -1), ROne)

\* Variant: the boundary equations are put in front of the lists
\* (eqs.insert(0, mat)) instead of appended.
W1_SpaceBounds_Prepends ==
    /\ example = "wave1d" /\ pc = "bounds"
    /\ \E lb \in {W1_BoundsLoop} :
           /\ eqs' = [n \in 1..Len(lb) |-> W1_LowerMat(lb[n])]
                         \o [n \in 1..Len(lb) |-> W1_UpperMat(lb[n])] \o eqs
           /\ col' = [n \in 1..Len(lb) |-> RInt(h_1)]
                         \o [n \in 1..Len(lb) |-> RInt(h_2)] \o col
           /\ tag' = [n \in 1..Len(lb) |-> [kind |-> "lower_x", at |-> <<lb[n]>>]]
                         \o [n \in 1..Len(lb) |-> [kind |-> "upper_x", at |-> <<lb[n]>>]]
                         \o tag
    /\ pc' = "solve"
    /\ UNCHANGED <<example, runs, jumps, i_heat, params, grid, u>>

\* "Space bounds" cell.
W1_SpaceBounds ==
    /\ example = "wave1d" /\ pc = "bounds"
    /\ \E lb \in {W1_BoundsLoop} :
           /\ eqs' = Extend(eqs, [n \in 1..Len(lb) |-> W1_LowerMat(lb[n])]
                         \o [n \in 1..Len(lb) |-> W1_UpperMat(lb[n])])
           /\ col' = Extend(col, [n \in 1..Len(lb) |-> RInt(h_1)]
                         \o [n \in 1..Len(lb) |-> RInt(h_2)])
           /\ tag' = IF IsNdarray(eqs) THEN tag
                      ELSE tag \o [n \in 1..Len(lb) |-> [kind |-> "lower_x", at |-> <<lb[n]>>]]
                         \o [n \in 1..Len(lb) |-> [kind |-> "upper_x", at |-> <<lb[n]>>]]
    /\ pc' = IF IsNdarray(eqs) /\ Len(W1_BoundsLoop) > 0
               THEN "AttributeError"
               ELSE "solve"
    /\ UNCHANGED <<example, runs, jumps, i_heat, params, grid, u>>

(***************************************************************************)
(* The direct solve: np.reshape and np.linalg.solve.                       *)
(***************************************************************************)
\* Row-major position of (i, j) in the flattened (N_t*N_x) vector.
Flat2(k) == k[1] * N_x + k[2]
\* The (i, j) at flat position q: np.reshape(u, (N_t, N_x)).
Unflat2(q) == <<q \div N_x, q % N_x>>

\* The only element of a one-element set.  Written around a set
\* {e(v) : v \in {d}} it gives e(d) with d evaluated once.
The(S) == CHOOSE z \in S : TRUE

\* Variant: no row search; a zero on the diagonal counts as singular.
Pivot_NoSearch(M, k, n) == IF M[k][k] # RZero THEN k ELSE -1

\* The row at or below row k whose entry in column k has the largest
\* magnitude (the first such row), or -1 when every such entry is zero.
Pivot(M, k, n) ==
    LET cand == {r \in k..(n - 1) : M[r][k] # RZero}
        best == {r \in cand : \A s \in cand :
                    ~RLess(RAbs(M[r][k]), RAbs(M[s][k]))}
    IN  IF cand = {} THEN -1
        ELSE CHOOSE r \in best : \A s \in best : r <= s

\* The pivot row divided by its pivot.
ScaleRow(row, k, n) == [q \in 0..n |-> RDiv(row[q], row[k])]

\* Row src with its entry in column k cleared by the scaled pivot row.
ClearRow(src, rowk, k, n) ==
    IF src[k] = RZero THEN src
    ELSE [q \in 0..n |-> RSub(src[q], RMul(src[k], rowk[q]))]

\* Column k of the n x (n+1) augmented matrix M (rows and columns counted
\* from 0) reduced with pivot row p: rows k and p are swapped, row k is
\* scaled and column k is cleared in every other row.
ElimStep(M, k, p, n) ==
    The({ [r \in 0..(n - 1) |->
             IF r = k THEN rowk
             ELSE ClearRow(IF r = p THEN M[k] ELSE M[r], rowk, k, n)]
          : rowk \in {ScaleRow(M[p], k, n)} })

\* Elimination with partial pivoting from column k on: <<TRUE, reduced
\* matrix>>, or <<FALSE, M>> when a column has no pivot (singular matrix).
RECURSIVE Eliminate(_, _, _)
Eliminate(M, k, n) ==
    IF k = n THEN <<TRUE, M>>
    ELSE The({ IF p = -1 THEN <<FALSE, M>>
               ELSE The({ Eliminate(m2, k + 1, n)
                          : m2 \in {ElimStep(M, k, p, n)} })
               : p \in {Pivot(M, k, n)} })

\* np.linalg.solve(A, b) for an n x n matrix A and an n-vector b, both
\* indexed from 0: <<TRUE, solution>> or <<FALSE, ...>> (LinAlgError).
LinalgSolve(A, b, n) ==
    The({ <<res[1], [r \in 0..(n - 1) |-> res[2][r][n]]>>
          : res \in { The({ Eliminate(aug, 0, n)
                            : aug \in {[r \in 0..(n - 1) |->
                                         [q \in 0..n |->
                                           IF q = n THEN b[r] ELSE A[r][q]]]} }) } })

\* np.reshape(np.array(eqs), (N_t*N_x, N_t*N_x)) of the 1-D example; eqs
\* is the list of (N_t, N_x) arrays, or the matrix a previous run of the
\* cell left.
W1_Reshape ==
    IF IsNdarray(eqs) THEN eqs
    ELSE [r \in 0..(N_t * N_x - 1) |->
            [q \in 0..(N_t * N_x - 1) |-> eqs[r + 1][Unflat2(q)]]]

\* Variant: np.reshape(eqs, (-1, N_t*N_x)) accepts any number of equations.
W1_Solve_ReshapeAnyRows ==
    /\ example = "wave1d" /\ pc = "solve"
    /\ N_t * N_x <= MaxUnknowns
    /\ IF Count(eqs) # N_t * N_x \/ Count(col) # N_t * N_x
       THEN \* the matrix is not square: solve raises LinAlgError after
            \* eqs = np.array(eqs) and col = np.array(col)
            /\ pc' = "LinAlgError"
            /\ eqs' = (IF IsNdarray(eqs) THEN eqs ELSE NpArray(eqs))
            /\ col' = (IF IsNdarray(col) THEN col ELSE NpArray(col))
            /\ u' = u
       ELSE \E A \in {W1_Reshape} :
            \E b \in {IF IsNdarray(col) THEN col ELSE NpArray(col)} :
            \E sol \in {LinalgSolve(A, b, N_t * N_x)} :
                /\ eqs' = A
                /\ col' = b
                /\ IF sol[1]
                   THEN /\ u' = [k \in Idx2 |-> sol[2][Flat2(k)]]
                        /\ pc' = "done"
                   ELSE \* np.linalg.solve raises LinAlgError
                        /\ u' = u
                        /\ pc' = "LinAlgError"
    /\ UNCHANGED <<example, runs, jumps, i_heat, params, grid, tag>>

\* Variant: the solution is stored in col: col = np.linalg.solve(eqs, col).
W1_Solve_OverwritesCol ==
    /\ example = "wave1d" /\ pc = "solve"
    /\ N_t * N_x <= MaxUnknowns
    /\ IF Count(eqs) # N_t * N_x \/ Count(col) # N_t * N_x
       THEN \* np.reshape (or solve, for col) raises ValueError after
            \* eqs = np.array(eqs) and col = np.array(col)
            /\ pc' = "ValueError"
            /\ eqs' = (IF IsNdarray(eqs) THEN eqs ELSE NpArray(eqs))
            /\ col' = (IF IsNdarray(col) THEN col ELSE NpArray(col))
            /\ u' = u
       ELSE \E A \in {W1_Reshape} :
            \E b \in {IF IsNdarray(col) THEN col ELSE NpArray(col)} :
            \E sol \in {LinalgSolve(A, b, N_t * N_x)} :
                /\ eqs' = A
                /\ col' = (IF sol[1] THEN sol[2] ELSE b)
                /\ IF sol[1]
                   THEN /\ u' = [k \in Idx2 |-> sol[2][Flat2(k)]]
                        /\ pc' = "done"
                   ELSE \* np.linalg.solve raises LinAlgError
                        /\ u' = u
                        /\ pc' = "LinAlgError"
    /\ UNCHANGED <<example, runs, jumps, i_heat, params, grid, tag>>

\* "Reshape for matrix solving / Solve the system" cell.
W1_Solve ==
    /\ example = "wave1d" /\ pc = "solve"
    /\ N_t * N_x <= MaxUnknowns
    /\ IF Count(eqs) # N_t * N_x \/ Count(col) # N_t * N_x
       THEN \* np.reshape (or solve, for col) raises ValueError after
            \* eqs = np.array(eqs) and col = np.array(col)
            /\ pc' = "ValueError"
            /\ eqs' = (IF IsNdarray(eqs) THEN eqs ELSE NpArray(eqs))
            /\ col' = (IF IsNdarray(col) THEN col ELSE NpArray(col))
            /\ u' = u
       ELSE \E A \in {W1_Reshape} :
            \E b \in {IF IsNdarray(col) THEN col ELSE NpArray(col)} :
            \E sol \in {LinalgSolve(A, b, N_t * N_x)} :
                /\ eqs' = A
                /\ col' = b
                /\ IF sol[1]
                   THEN /\ u' = [k \in Idx2 |-> sol[2][Flat2(k)]]
                        /\ pc' = "done"
                   ELSE \* np.linalg.solve raises LinAlgError
                        /\ u' = u
                        /\ pc' = "LinAlgError"
    /\ UNCHANGED <<example, runs, jumps, i_heat, params, grid, tag>>

(***************************************************************************)
(* 2-D wave equation                                                       *)
(***************************************************************************)
\* The index set of an (N_t, N_x, N_y) array.
Idx3 == (0..(N_t - 1)) \X (0..(N_x - 1)) \X (0..(N_y - 1))
\* np.zeros((N_t, N_x, N_y))
Zeros3 == [k \in Idx3 |-> RZero]
\* The array position that mat[i,j,k] names.
At3(i, j, k) == <<PyIdx(i, N_t), PyIdx(j, N_x), PyIdx(k, N_y)>>
\* Row-major position of (i, j, k) in the flattened vector.
Flat3(k) == (k[1] * N_x + k[2]) * N_y + k[3]
\* The (i, j, k) at flat position q: np.reshape(u, (N_t, N_x, N_y)).
Unflat3(q) == <<q \div (N_x * N_y), (q \div N_y) % N_x, q % N_y>>

\* "Create the grid" cell.
W2_CreateGrid ==
    /\ example = "wave2d" /\ pc = "grid"
    /\ dx' = RDiv(RSub(x_2, x_1), RInt(N_x))
    /\ dy' = RDiv(RSub(y_2, y_1), RInt(N_y))
    /\ dt' = RDiv(t_f, RInt(N_t))
    /\ x' = Linspace(x_1, x_2, N_x)
    /\ y' = Linspace(y_1, y_2, N_y)
    /\ t' = Linspace(RZero, t_f, N_t)
    /\ u' = Zeros3
    /\ pc' = "init"
    /\ UNCHANGED <<example, runs, jumps, i_heat, params, eqs, col, tag>>

\* "Initialize the equations and vector" cell.
W2_InitEqs ==
    /\ example = "wave2d" /\ pc = "init"
    /\ col' = << >>
    /\ eqs' = << >>
    /\ tag' = << >>
    /\ pc' = "stencil"
    /\ UNCHANGED <<example, runs, jumps, i_heat, params, grid, u>>

\* Variant: the x loop starts at the boundary column.
W2_StencilLoop_FromEdge ==
    Loop3(Range(1, N_t - 1), Range(0, N_x - 1), Range(1, N_y - 1))

\* The loop variables (i, j, k) of the differential-equation loop.
W2_StencilLoop ==
    Loop3(Range(1, N_t - 1), Range(1, N_x - 1), Range(1, N_y - 1))

\* The coefficient array built in the loop body for (i, j, k).
W2_StencilMat(i, j, k) ==
    LET m0 == Zeros3
        m1 == AddAt(m0, At3(i, j, k), RDiv(RDiv(RInt(-2), dt), dt))
        m2 == AddAt(m1, At3(i - 1, j, k), RDiv(RDiv(ROne, dt), dt))
        m3 == AddAt(m2, At3(i + 1, j, k), RDiv(RDiv(ROne, dt), dt))
        cx == RDiv(RDiv(RMul(c, c), dx), dx)
        m4 == AddAt(m3, At3(i, j, k), RMul(cx, RInt(2)))
        m5 == AddAt(m4, At3(i, j + 1, k), RNeg(cx))
        m6 == AddAt(m5, At3(i, j - 1, k), RNeg(cx))
        cy == RDiv(RDiv(RMul(c, c), dy), dy)
        m7 == AddAt(m6, At3(i, j, k), RMul(cy, RInt(2)))
        m8 == AddAt(m7, At3(i, j, k + 1), RNeg(cy))
        m9 == AddAt(m8, At3(i, j, k - 1), RNeg(cy))
    IN  m9

\* The source value appended to col in the loop body for (i, j, k).
W2_StencilCol(i, j, k) == Fxy(t[i], x[j], y[k])

\* "differential equation definition" cell.
W2_Stencil ==
    /\ example = "wave2d" /\ pc = "stencil"
    /\ \E lp \in {W2_StencilLoop} :
        /\ eqs' = Extend(eqs, [n \in 1..Len(lp) |->
                            W2_StencilMat(lp[n][1], lp[n][2], lp[n][3])])
        /\ col' = Extend(col, [n \in 1..Len(lp) |->
                            W2_StencilCol(lp[n][1], lp[n][2], lp[n][3])])
        /\ tag' = IF IsNdarray(eqs) THEN tag
                   ELSE tag \o [n \in 1..Len(lp) |-> [kind |-> "stencil", at |-> lp[n]]]
    /\ pc' = IF IsNdarray(eqs) /\ Len(W2_StencilLoop) > 0
               THEN "AttributeError"
               ELSE "ivp"
    /\ UNCHANGED <<example, runs, jumps, i_heat, params, grid, u>>

\* The loop variables (j, k) of the "IVP Dirichlet" loop.
W2_DirichletLoop == Loop2(Range(0, N_x), Range(0, N_y))
W2_DirichletMat(j, k) == SetAt(Zeros3, At3(0, j, k), ROne)
W2_DirichletCol(j, k) == G0xy(x[j], y[k])

\* The loop variables (j, k) of the "IVP Neumann" loop.
W2_NeumannLoop == Loop2(Range(1, N_x - 1), Range(1, N_y - 1))
W2_NeumannMat(j, k) ==
    LET m1 == SetAt(Zeros3, At3(0 + 1, j, k), ROne)
    IN  SetAt(m1, At3(0, j, k), RNeg(ROne))
W2_NeumannCol(j, k) == G1xy(x[j], y[k])
\* mat[0+1,j,k] = 1 raises IndexError in the first Neumann iteration when
\* the time axis has a single sample.
W2_NeumannRaises == Len(W2_NeumannLoop) > 0 /\ N_t < 2

\* "IVP Dirichlet / IVP Neumann" cell.
W2_IVP ==
    /\ example = "wave2d" /\ pc = "ivp"
    /\ \E ld \in {W2_DirichletLoop} :
       \E ln \in {IF W2_NeumannRaises THEN << >> ELSE W2_NeumannLoop} :
        /\ eqs' = Extend(eqs, [n \in 1..Len(ld) |-> W2_DirichletMat(ld[n][1], ld[n][2])]
                      \o [n \in 1..Len(ln) |-> W2_NeumannMat(ln[n][1], ln[n][2])])
        /\ col' = Extend(col, [n \in 1..Len(ld) |-> W2_DirichletCol(ld[n][1], ld[n][2])]
                      \o [n \in 1..Len(ln) |-> W2_NeumannCol(ln[n][1], ln[n][2])])
        /\ tag' = IF IsNdarray(eqs) THEN tag
                   ELSE tag \o [n \in 1..Len(ld) |-> [kind |-> "dirichlet", at |-> ld[n]]]
                      \o [n \in 1..Len(ln) |-> [kind |-> "neumann", at |-> ln[n]]]
    /\ pc' = IF IsNdarray(eqs) /\ Len(W2_DirichletLoop) + Len(W2_NeumannLoop) > 0
               THEN "AttributeError"
               ELSE IF W2_NeumannRaises THEN "IndexError" ELSE "bounds"
    /\ UNCHANGED <<example, runs, jumps, i_heat, params, grid, u>>

\* Variant: the x-boundary loops also cover time index 0.
W2_XBoundsLoop_FromZero == Loop2(Range(0, N_t), Range(0, N_y))

\* The loop variables (i, k) of the two x-boundary loops.
W2_XBoundsLoop == Loop2(Range(1, N_t), Range(0, N_y))
W2_LowerXMat(i, k) == SetAt(Zeros3, At3(i, 0, k), ROne)
W2_UpperXMat(i, k) == SetAt(Zeros3, At3(i, -1, k), ROne)

\* Variant: the y-boundary loops also cover the x-boundary columns.
W2_YBoundsLoop_AllX == Loop2(Range(1, N_t), Range(0, N_x))

\* The loop variables (i, j) of the two y-boundary loops.
W2_YBoundsLoop == Loop2(Range(1, N_t), Range(1, N_x - 1))
W2_LowerYMat(i, j) == SetAt(Zeros3, At3(i, j, 0), ROne)
W2_UpperYMat(i, j) == SetAt(Zeros3, At3(i, j, -1), ROne)

\* "Space bounds" cell.
W2_SpaceBounds ==
    /\ example = "wave2d" /\ pc = "bounds"
    /\ \E lx \in {W2_XBoundsLoop} : \E ly \in {W2_YBoundsLoop} :
        /\ eqs' = Extend(eqs, [n \in 1..Len(lx) |-> W2_LowerXMat(lx[n][1], lx[n][2])]
                      \o [n \in 1..Len(lx) |-> W2_UpperXMat(lx[n][1], lx[n][2])]
                      \o [n \in 1..Len(ly) |-> W2_LowerYMat(ly[n][1], ly[n][2])]
                      \o [n \in 1..Len(ly) |-> W2_UpperYMat(ly[n][1], ly[n][2])])
        /\ col' = Extend(col, [n \in 1..Len(lx) |-> RInt(h_1)]
                      \o [n \in 1..Len(lx) |-> RInt(h_2)]
                      \o [n \in 1..Len(ly) |-> RInt(h_1)]
                      \o [n \in 1..Len(ly) |-> RInt(h_2)])
        /\ tag' = IF IsNdarray(eqs) THEN tag
                   ELSE tag \o [n \in 1..Len(lx) |-> [kind |-> "lower_x", at |-> lx[n]]]
                      \o [n \in 1..Len(lx) |-> [kind |-> "upper_x", at |-> lx[n]]]
                      \o [n \in 1..Len(ly) |-> [kind |-> "lower_y", at |-> ly[n]]]
                      \o [n \in 1..Len(ly) |-> [kind |-> "upper_y", at |-> ly[n]]]
    /\ pc' = IF IsNdarray(eqs) /\ Len(W2_XBoundsLoop) + Len(W2_YBoundsLoop) > 0
               THEN "AttributeError"
               ELSE "solve"
    /\ UNCHANGED <<example, runs, jumps, i_heat, params, grid, u>>

\* np.reshape(np.array(eqs), (N_t*N_x*N_y, N_t*N_x*N_y)) of the 2-D
\* example; eqs is the list of (N_t, N_x, N_y) arrays, or the matrix a
\* previous run of the cell left.
W2_Reshape ==
    IF IsNdarray(eqs) THEN eqs
    ELSE [r \in 0..(N_t * N_x * N_y - 1) |->
            [q \in 0..(N_t * N_x * N_y - 1) |-> eqs[r + 1][Unflat3(q)]]]

\* "Reshape for matrix solving / Solve the system" cell.
W2_Solve ==
    /\ example = "wave2d" /\ pc = "solve"
    /\ N_t * N_x * N_y <= MaxUnknowns
    /\ IF Count(eqs) # N_t * N_x * N_y \/ Count(col) # N_t * N_x * N_y
       THEN \* np.reshape (or solve, for col) raises ValueError after
            \* eqs = np.array(eqs) and col = np.array(col)
            /\ pc' = "ValueError"
            /\ eqs' = (IF IsNdarray(eqs) THEN eqs ELSE NpArray(eqs))
            /\ col' = (IF IsNdarray(col) THEN col ELSE NpArray(col))
            /\ u' = u
       ELSE \E A \in {W2_Reshape} :
            \E b \in {IF IsNdarray(col) THEN col ELSE NpArray(col)} :
            \E sol \in {LinalgSolve(A, b, N_t * N_x * N_y)} :
                /\ eqs' = A
                /\ col' = b
                /\ IF sol[1]
                   THEN /\ u' = [k \in Idx3 |-> sol[2][Flat3(k)]]
                        /\ pc' = "done"
                   ELSE \* np.linalg.solve raises LinAlgError
                        /\ u' = u
                        /\ pc' = "LinAlgError"
    /\ UNCHANGED <<example, runs, jumps, i_heat, params, grid, tag>>

(***************************************************************************)
(* 1-D heat equation                                                       *)
(***************************************************************************)
\* Variant: the row u[0,:] = g_0(x) written after the two columns.
H_FillBoundary_RowLast ==
    LET u1 == [k \in Idx2 |-> IF k[2] = PyIdx(0, N_x) THEN RInt(h_1) ELSE RZero]
        u2 == [k \in Idx2 |-> IF k[2] = PyIdx(-1, N_x) THEN RInt(h_2) ELSE u1[k]]
        u3 == [k \in Idx2 |-> IF k[1] = 0 THEN G0(x'[k[2]]) ELSE u2[k]]
    IN  u3

\* Variant: the columns only, the row u[0,:] left at zero.
H_FillBoundary_ColumnsOnly ==
    LET u1 == [k \in Idx2 |-> IF k[2] = PyIdx(0, N_x) THEN RInt(h_1) ELSE RZero]
        u2 == [k \in Idx2 |-> IF k[2] = PyIdx(-1, N_x) THEN RInt(h_2) ELSE u1[k]]
    IN  u2

\* The row u[0,:] = g_0(x), then the columns u[:,0] = h_1 and
\* u[:,-1] = h_2, written in that order over np.zeros((N_t, N_x)).
H_FillBoundary ==
    LET u1 == [k \in Idx2 |-> IF k[1] = 0 THEN G0(x'[k[2]]) ELSE RZero]
        u2 == [k \in Idx2 |-> IF k[2] = PyIdx(0, N_x) THEN RInt(h_1) ELSE u1[k]]
        u3 == [k \in Idx2 |-> IF k[2] = PyIdx(-1, N_x) THEN RInt(h_2) ELSE u2[k]]
    IN  u3

\* Variant: the step sizes taken over the number of intervals.
H_CreateGrid_Intervals ==
    /\ example = "heat" /\ pc = "grid"
    /\ dx' = RDiv(RSub(x_2, x_1), RInt(N_x - 1))
    /\ dt' = RDiv(t_f, RInt(N_t - 1))
    /\ x' = Linspace(x_1, x_2, N_x)
    /\ t' = Linspace(RZero, t_f, N_t)
    /\ u' = H_FillBoundary
    /\ pc' = "step"
    /\ i_heat' = 0
    /\ UNCHANGED <<example, runs, jumps, params, dy, y, eqs, col, tag>>

\* "Create the grid ... Fill in the boundary conditions" cell.
H_CreateGrid ==
    /\ example = "heat" /\ pc = "grid"
    /\ dx' = RDiv(RSub(x_2, x_1), RInt(N_x))
    /\ dt' = RDiv(t_f, RInt(N_t))
    /\ x' = Linspace(x_1, x_2, N_x)
    /\ t' = Linspace(RZero, t_f, N_t)
    /\ u' = H_FillBoundary
    /\ pc' = "step"
    /\ i_heat' = 0
    /\ UNCHANGED <<example, runs, jumps, params, dy, y, eqs, col, tag>>

\* Variant: a*dt/dx, divided by dx once.
H_Ratio_SingleDx == RDiv(RMul(a, dt), dx)

\* Variant: a*dt, not divided by dx at all.
H_Ratio_NoDx == RMul(a, dt)

\* The stability ratio as the loop computes it: a*dt/dx/dx.
H_Ratio == RDiv(RDiv(RMul(a, dt), dx), dx)

\* Variant: the update without the centre term -2*u[i,j].
H_Update_NoCentre(j) ==
    RAdd(RAdd(u[<<i_heat, j>>],
              RMul(H_Ratio, RAdd(u[<<i_heat, j - 1>>], u[<<i_heat, j + 1>>]))),
         RMul(dt, F(t[i_heat], x[j])))

\* The value assigned to u[i+1, j] by iteration i, for j in the slice 1:-1.
H_Update(j) ==
    RAdd(RAdd(u[<<i_heat, j>>],
              RMul(H_Ratio,
                   RSub(RAdd(u[<<i_heat, j - 1>>], u[<<i_heat, j + 1>>]),
                        RMul(RInt(2), u[<<i_heat, j>>])))),
         RMul(dt, F(t[i_heat], x[j])))

\* The columns of the slice 1:-1.
H_Slice == 1..(N_x - 2)

\* Variant: the whole row i+1 is assigned, its two end entries with zero.
H_Step_WritesWholeRow ==
    /\ example = "heat" /\ pc = "step"
    /\ i_heat < N_t - 1
    /\ u' = [k \in Idx2 |->
                IF k[1] = i_heat + 1
                THEN (IF k[2] \in H_Slice THEN H_Update(k[2]) ELSE RZero)
                ELSE u[k]]
    /\ i_heat' = i_heat + 1
    /\ UNCHANGED <<example, runs, jumps, pc, params, grid, eqs, col, tag>>

\* One iteration of "for i in range(N_t-1)".
H_Step ==
    /\ example = "heat" /\ pc = "step"
    /\ i_heat < N_t - 1
    /\ u' = [k \in Idx2 |->
                IF k[1] = i_heat + 1 /\ k[2] \in H_Slice THEN H_Update(k[2]) ELSE u[k]]
    /\ i_heat' = i_heat + 1
    /\ UNCHANGED <<example, runs, jumps, pc, params, grid, eqs, col, tag>>

\* Variant: the loop is "for i in range(N_t-2)" and ends one row early.
H_LoopEnd_OneEarly ==
    /\ example = "heat" /\ pc = "step"
    /\ i_heat >= N_t - 2
    /\ pc' = "done"
    /\ UNCHANGED <<example, runs, jumps, i_heat, params, grid, u, eqs, col, tag>>

\* The loop ends when range(N_t-1) is exhausted.
H_LoopEnd ==
    /\ example = "heat" /\ pc = "step"
    /\ i_heat >= N_t - 1
    /\ pc' = "done"
    /\ UNCHANGED <<example, runs, jumps, i_heat, params, grid, u, eqs, col, tag>>

Next ==
    \/ H_CreateGrid
    \/ H_Step
    \/ H_LoopEnd
    \/ W1_CreateGrid
    \/ W1_InitEqs
    \/ W1_Stencil
    \/ W1_IVP
    \/ W1_SpaceBounds
    \/ W1_Solve
    \/ W2_CreateGrid
    \/ W2_InitEqs
    \/ W2_Stencil
    \/ W2_IVP
    \/ W2_SpaceBounds
    \/ W2_Solve

Spec == Init /\ [][Next]_vars

(***************************************************************************)
(* Degenerate grids.  Nothing in the notebook validates the mesh cell, so  *)
(* the same cells can be run on an axis with a single sample or with its   *)
(* end before its start.                                                   *)
(***************************************************************************)
\* Some axis has fewer than two samples or does not have end > start.
Degenerate ==
    \/ N_t < 2
    \/ N_x < 2
    \/ example = "wave2d" /\ N_y < 2
    \/ ~RLess(x_1, x_2)

\* The kernel after the parameter and mesh cells were edited to a
\* degenerate grid.
InitDegenerate ==
    /\ example \in {"heat", "wave1d", "wave2d"}
    /\ runs = 0
    /\ jumps = << >>
    /\ pc = "grid"
    /\ i_heat = 0
    /\ N_t \in 1..MaxNDegenerate
    /\ N_x \in 1..MaxNDegenerate
    /\ N_y \in IF example = "wave2d" THEN 1..MaxNDegenerate ELSE {1}
    /\ a = IF example = "heat" THEN <<1, 2>> ELSE Unset
    /\ c = IF example = "heat" THEN Unset ELSE <<1, 2>>
    /\ t_f = RInt(6)
    /\ x_1 = RInt(-3)
    /\ x_2 \in {RInt(3), RInt(-9)}
    /\ y_1 = RInt(-3)
    /\ y_2 = RInt(3)
    /\ h_1 = 0
    /\ h_2 = 1
    /\ g_0 = <<1, 1>>
    /\ g_1 = IF example = "heat" THEN Unset ELSE <<1>>
    /\ f = <<1>>
    /\ Degenerate
    /\ dx = Unset /\ dy = Unset /\ dt = Unset
    /\ x = Unset /\ y = Unset /\ t = Unset
    /\ u = Unset
    /\ eqs = Unset /\ col = Unset /\ tag = Unset

SpecDegenerate == InitDegenerate /\ [][Next]_vars

(***************************************************************************)
(* The heat example alone.  Once the loop cell is running, the kernel      *)
(* executes the next iteration whenever there is one and leaves the loop   *)
(* when there is none.  The time axis may have a single sample:            *)
(* range(N_t-1) is then empty.                                             *)
(***************************************************************************)
InitHeat ==
    /\ example = "heat"
    /\ runs = 0
    /\ jumps = << >>
    /\ pc = "grid"
    /\ i_heat = 0
    /\ N_t \in 1..MaxNtHeat
    /\ N_x \in 2..MaxNxHeat
    /\ N_y = 1
    /\ a \in AVals
    /\ c = Unset
    /\ t_f = RInt(6)
    /\ x_1 = RInt(-3)
    /\ x_2 = RInt(3)
    /\ y_1 = RInt(-3)
    /\ y_2 = RInt(3)
    /\ h_1 \in Vals
    /\ h_2 = 1
    /\ g_0 \in {<<0, 0>>, <<1, 1>>}
    /\ g_1 = Unset
    /\ f \in {<<v>> : v \in Vals}
    /\ dx = Unset /\ dy = Unset /\ dt = Unset
    /\ x = Unset /\ y = Unset /\ t = Unset
    /\ u = Unset
    /\ eqs = Unset /\ col = Unset /\ tag = Unset

NextHeat ==
    \/ H_CreateGrid
    \/ H_Step
    \/ H_LoopEnd

SpecHeat ==
    /\ InitHeat
    /\ [][NextHeat]_vars
    /\ WF_vars(H_Step)
    /\ WF_vars(H_LoopEnd)

(***************************************************************************)
(* Cells run out of order.  A notebook lets the user run any cell next:    *)
(* run an assembly cell again, skip one, or run a cell of an example that  *)
(* has already been run to its end.                                        *)
(***************************************************************************)
\* The code cells of the running example below its grid cell.
Cells ==
    IF example = "heat" THEN {"step"}
    ELSE {"init", "stencil", "ivp", "bounds", "solve"}

\* The places from which the user picks a cell: the init cell has run (eqs
\* and col exist) and no error has stopped the run; the heat loop cell is
\* picked again only after it has finished.
CanChoose ==
    IF example = "heat" THEN pc = "done"
    ELSE pc \in {"stencil", "ivp", "bounds", "solve", "done"}

\* The user runs a cell other than the next one.
ChooseCell ==
    /\ CanChoose
    /\ Len(jumps) < MaxJumps
    /\ \E cell \in Cells \ {pc} :
        /\ pc' = cell
        /\ jumps' = Append(jumps, <<pc, cell>>)
    /\ i_heat' = 0
    /\ UNCHANGED <<example, runs, params, grid, u, eqs, col, tag>>

\* One choice for each parameter that is not a sample count.
FixedParams ==
    /\ t_f = RInt(6)
    /\ h_1 = 0
    /\ h_2 = 1
    /\ g_0 = <<1, 1>>
    /\ f = <<1>>
    /\ example = "heat" => a = <<1, 2>>
    /\ example # "heat" => c = <<1, 2>> /\ g_1 = <<1>>

InitCells == Init /\ FixedParams

NextCells == Next \/ ChooseCell

SpecCells == InitCells /\ [][NextCells]_vars

(***************************************************************************)
(* Examples run one after another in the same kernel.  The parameter and   *)
(* mesh cells of the next example assign its own parameters; every other   *)
(* global keeps the value the previous example left.                       *)
(***************************************************************************)
\* The run of the current example has ended, in its last cell or in an
\* error.
Finished ==
    pc \in {"done", "ValueError", "LinAlgError", "IndexError", "AttributeError"}

\* The parameter and mesh cells of example ex are run after another
\* example has finished.
NextExample ==
    /\ Finished
    /\ runs < MaxRuns
    /\ runs' = runs + 1
    /\ pc' = "grid"
    /\ \E ex \in {"heat", "wave1d", "wave2d"} :
        /\ example' = ex
        /\ N_t' \in 2..MaxNSeq
        /\ N_x' \in 2..MaxNSeq
        /\ N_y' \in IF ex = "wave2d" THEN 2..MaxNSeq ELSE {N_y}
        /\ a' = IF ex = "heat" THEN <<1, 2>> ELSE a
        /\ c' = IF ex = "heat" THEN c ELSE <<1, 2>>
        /\ g_1' = IF ex = "heat" THEN g_1 ELSE <<1>>
        /\ y_1' = IF ex = "wave2d" THEN RInt(-3) ELSE y_1
        /\ y_2' = IF ex = "wave2d" THEN RInt(3) ELSE y_2
    /\ t_f' \in TfVals
    /\ x_1' = RInt(-3)
    /\ x_2' = RInt(3)
    /\ h_1' = 0
    /\ h_2' = 1
    /\ g_0' = <<1, 1>>
    /\ f' = <<1>>
    /\ UNCHANGED <<jumps, i_heat, grid, u, eqs, col, tag>>

\* The first example, on the grids and parameters NextExample offers.
InitSeq ==
    /\ Init
    /\ N_t <= MaxNSeq /\ N_x <= MaxNSeq /\ N_y <= MaxNSeq
    /\ h_1 = 0
    /\ h_2 = 1
    /\ g_0 = <<1, 1>>
    /\ f = <<1>>
    /\ example = "heat" => a = <<1, 2>>
    /\ example # "heat" => c = <<1, 2>> /\ g_1 = <<1>>

NextSeq == Next \/ NextExample

SpecSeq == InitSeq /\ [][NextSeq]_vars

(***************************************************************************)
(* Vocabulary of the properties.  The equation list is inspected in the    *)
(* state where assembly is complete and the solve cell has not yet         *)
(* replaced eqs by the reshaped matrix.                                    *)
(***************************************************************************)
Wave1D == example = "wave1d"
Wave2D == example = "wave2d"
Assembled == pc = "solve"
Solved == pc = "done"

\* The index set of the unknowns of the running example.
Idx == IF Wave1D THEN Idx2 ELSE Idx3
\* Index k moved by d along the time axis.
ShiftT(k, d) == [k EXCEPT ![1] = @ + d]
\* The spatial axes of an index are positions 2..Len(k).
AxisLen(ax) == IF ax = 1 THEN N_t ELSE IF ax = 2 THEN N_x ELSE N_y
OnSpaceBoundary(k) == \E ax \in 2..Len(k) : k[ax] = 0 \/ k[ax] = AxisLen(ax) - 1
OnInitialSlice(k) == k[1] = 0
OnLastSlice(k) == k[1] = N_t - 1
SpaceInterior(k) == ~OnSpaceBoundary(k)
\* The number of coordinates of k that are the first or last of their axis.
EdgeCount(k) == Cardinality({ax \in 1..Len(k) : k[ax] = 0 \/ k[ax] = AxisLen(ax) - 1})

\* Positions in eqs of the equations appended by the loops of the kinds ks.
EqsOfKind(ks) == {n \in 1..Len(tag) : tag[n].kind \in ks}
StencilEqs == EqsOfKind({"stencil"})
NeumannEqs == EqsOfKind({"neumann"})
IvpDirichletEqs == EqsOfKind({"dirichlet"})
XBoundEqs == EqsOfKind({"lower_x", "upper_x"})
YBoundEqs == EqsOfKind({"lower_y", "upper_y"})
ValueEqs == IvpDirichletEqs \cup XBoundEqs \cup YBoundEqs

\* The indices at which coefficient array m is nonzero.
Support(m) == {k \in DOMAIN m : m[k] # RZero}
\* Where a stencil is centred: the index both of whose time neighbours
\* carry a coefficient.
Centres(m) ==
    {k \in DOMAIN m : /\ ShiftT(k, -1) \in Support(m)
                      /\ ShiftT(k, 1) \in Support(m)}
\* Where a value (Dirichlet) equation is addressed: its coefficient-1 index.
ValueAddr(m) == {k \in DOMAIN m : m[k] = ROne}
\* Where an initial-time Neumann equation is addressed: its index k, the
\* one with coefficient -1.
NeumannAddr(m) == {k \in DOMAIN m : m[k] = RNeg(ROne)}

StencilIndexSet == UNION {Centres(eqs[n]) : n \in StencilEqs}
BoundaryIndexSet ==
    UNION ({ValueAddr(eqs[n]) : n \in ValueEqs}
           \cup {NeumannAddr(eqs[n]) : n \in NeumannEqs})

\* The interior of the last time row.
LastRowInterior == {k \in Idx : OnLastSlice(k) /\ SpaceInterior(k)}

(***************************************************************************)
(* C1                                                                      *)
(***************************************************************************)
\* C1 as stated: in the 1-D wave assembly the stencil index set and the
\* boundary/initial index set are disjoint and together are the whole
\* index set [0,N_t-1] x [0,N_x-1].
C1_PartitionWholeGrid ==
    (Wave1D /\ Assembled) =>
        /\ StencilIndexSet \cap BoundaryIndexSet = {}
        /\ StencilIndexSet \cup BoundaryIndexSet = Idx2

\* C1 amended: in the 1-D wave assembly the stencil index set and the
\* boundary/initial index set are disjoint, and their union is the index
\* set without the interior of the last time row: no equation is centred
\* on or addressed to (N_t-1, j) for j in [1,N_x-2].
C1_PartitionButLastRow ==
    (Wave1D /\ Assembled) =>
        /\ StencilIndexSet \cap BoundaryIndexSet = {}
        /\ StencilIndexSet \cup BoundaryIndexSet = Idx2 \ LastRowInterior

C1_Witness ==
    /\ Wave1D /\ Assembled
    /\ N_t >= 3 /\ N_x >= 3
    /\ StencilIndexSet # {}
    /\ LastRowInterior # {}

(***************************************************************************)
(* C2                                                                      *)
(***************************************************************************)
\* C2: after the four assembly cells of the 1-D wave example have run
\* once, eqs and col each hold exactly N_t*N_x entries.
C2_EquationCount1D ==
    (Wave1D /\ Assembled) =>
        /\ Len(eqs) = N_t * N_x
        /\ Len(col) = N_t * N_x

C2_Witness ==
    /\ Wave1D /\ Assembled
    /\ N_t >= 3 /\ N_x >= 3
    /\ StencilEqs # {} /\ NeumannEqs # {} /\ XBoundEqs # {}
    /\ Len(eqs) = N_t * N_x

(***************************************************************************)
(* C3                                                                      *)
(***************************************************************************)
\* C3: after all assembly cells of the 2-D wave example have run once,
\* eqs and col each hold exactly N_t*N_x*N_y entries.
C3_EquationCount2D ==
    (Wave2D /\ Assembled) =>
        /\ Len(eqs) = N_t * N_x * N_y
        /\ Len(col) = N_t * N_x * N_y

C3_Witness ==
    /\ Wave2D /\ Assembled
    /\ N_t >= 3 /\ N_x >= 3 /\ N_y >= 3
    /\ StencilEqs # {} /\ NeumannEqs # {} /\ XBoundEqs # {} /\ YBoundEqs # {}
    /\ Len(eqs) = N_t * N_x * N_y

(***************************************************************************)
(* C4                                                                      *)
(***************************************************************************)
\* The number of equations among ns that are addressed to index k.
ValueCount(k) == Cardinality({n \in ValueEqs : k \in ValueAddr(eqs[n])})
NeumannCount(k) == Cardinality({n \in NeumannEqs : k \in NeumannAddr(eqs[n])})

\* C4 as stated: in the wave assemblies every index on the initial-time
\* slice or on a spatial boundary receives exactly one boundary/initial
\* equation.
C4_ExactlyOneBoundaryEquation ==
    Assembled =>
        \A k \in Idx : (OnInitialSlice(k) \/ OnSpaceBoundary(k)) =>
            ValueCount(k) + NeumannCount(k) = 1

\* C4 amended: every index on the initial-time slice or on a spatial
\* boundary receives exactly one value (Dirichlet) equation; an index of
\* the initial slice that is interior in space receives in addition
\* exactly one initial-time Neumann equation, two equations in all, and
\* every other such index receives no Neumann equation.
C4_OneValuePlusInitialNeumann ==
    Assembled =>
        \A k \in Idx : (OnInitialSlice(k) \/ OnSpaceBoundary(k)) =>
            /\ ValueCount(k) = 1
            /\ NeumannCount(k) =
                 (IF OnInitialSlice(k) /\ SpaceInterior(k) THEN 1 ELSE 0)

C4_Witness ==
    /\ Wave2D /\ Assembled
    /\ \E k \in Idx : /\ OnInitialSlice(k) /\ SpaceInterior(k)
                      /\ ValueCount(k) = 1 /\ NeumannCount(k) = 1
    /\ \E k \in Idx : ~OnInitialSlice(k) /\ EdgeCount(k) >= 2 /\ ValueCount(k) = 1

(***************************************************************************)
(* C5                                                                      *)
(***************************************************************************)
\* C5: in the wave assemblies no unknown is fixed by two value equations:
\* two distinct equations among the IVP-Dirichlet, x-boundary and
\* y-boundary equations never put their coefficient 1 at the same index.
C5_NoDoubleDirichlet ==
    Assembled =>
        \A n, m \in ValueEqs :
            n # m => ValueAddr(eqs[n]) \cap ValueAddr(eqs[m]) = {}

C5_Witness ==
    /\ Wave2D /\ Assembled
    /\ N_x >= 3 /\ N_y >= 3
    /\ h_1 # h_2
    /\ IvpDirichletEqs # {} /\ XBoundEqs # {} /\ YBoundEqs # {}
    /\ \E n \in XBoundEqs : \E k \in ValueAddr(eqs[n]) : EdgeCount(k) >= 2

(***************************************************************************)
(* C6                                                                      *)
(***************************************************************************)
\* The coordinates x[j] (and y[k]) of the spatial loop variables sv.
G1At(sv) == IF Len(sv) = 1 THEN G1(x[sv[1]]) ELSE G1xy(x[sv[1]], y[sv[2]])

\* C6: each initial-time Neumann equation, emitted for spatial index j
\* (and k), has coefficient +1 at u[1,j], -1 at u[0,j], zero elsewhere,
\* and right-hand side g_1(x_j) * dt.
C6_NeumannRhsTimesDt ==
    Assembled =>
        \A n \in NeumannEqs :
            /\ eqs[n] = [k \in Idx |->
                            IF k = <<1>> \o tag[n].at THEN ROne
                            ELSE IF k = <<0>> \o tag[n].at THEN RNeg(ROne)
                            ELSE RZero]
            /\ col[n] = RMul(G1At(tag[n].at), dt)

(***************************************************************************)
(* C7                                                                      *)
(***************************************************************************)
\* The central-difference weights of the 1-D wave operator at (i, j).
CtcsWeights(i, j) ==
    [k \in Idx2 |->
        IF k = <<i - 1, j>> \/ k = <<i + 1, j>>
            THEN RDiv(ROne, RMul(dt, dt))
        ELSE IF k = <<i, j - 1>> \/ k = <<i, j + 1>>
            THEN RNeg(RDiv(RMul(c, c), RMul(dx, dx)))
        ELSE IF k = <<i, j>>
            THEN RAdd(RDiv(RInt(-2), RMul(dt, dt)),
                      RDiv(RMul(RInt(2), RMul(c, c)), RMul(dx, dx)))
        ELSE RZero]

C8_StencilAvoidsEdges ==
    Assembled =>
        \A n \in StencilEqs : \A k \in Support(eqs[n]) : EdgeCount(k) = 0

\* C8 amended: no stencil equation of the wave assemblies is centred at
\* the first or last time index or at the first or last index of a
\* spatial axis; its nonzero coefficients do reach those indices, but only
\* at indices that are first or last along a single axis.
C8_StencilCentredInside ==
    Assembled =>
        \A n \in StencilEqs :
            /\ Centres(eqs[n]) # {}
            /\ \A k \in Centres(eqs[n]) : EdgeCount(k) = 0
            /\ \A k \in Support(eqs[n]) : EdgeCount(k) <= 1

C8_Witness ==
    /\ Wave2D /\ Assembled
    /\ \E n \in StencilEqs :
        /\ \E k \in Support(eqs[n]) : OnInitialSlice(k)
        /\ \E k \in Support(eqs[n]) : OnSpaceBoundary(k)
        /\ \E k \in Centres(eqs[n]) : EdgeCount(k) = 0

C10_BoundaryColumnsAreH ==
    (Wave1D /\ Solved) =>
        \A i \in 0..(N_t - 1) :
            /\ u[<<i, 0>>] = RInt(h_1)
            /\ u[<<i, N_x - 1>>] = RInt(h_2)

(***************************************************************************)
(* Heat example: vocabulary of the properties.                             *)
(***************************************************************************)
Heat == example = "heat"
HeatDone == Heat /\ pc = "done"
RLeq(p, q) == ~RLess(q, p)
RHalf == <<1, 2>>
\* a*dt/dx^2 of the current parameters and grid.
StabilityRatio == RDiv(RMul(a, dt), RMul(dx, dx))
\* max_j |u[r,j]|
RowMax(r) ==
    LET vals == {RAbs(u[<<r, j>>]) : j \in 0..(N_x - 1)}
    IN  CHOOSE m \in vals : \A v \in vals : RLeq(v, m)
ZeroSource == f = <<0>>
ZeroBoundary == h_1 = 0 /\ h_2 = 0
\* One step of the scheme applied to row r at column j, from the fields.
EulerStep(r, j) ==
    RAdd(RAdd(u[<<r, j>>],
              RMul(StabilityRatio,
                   RSub(RAdd(u[<<r, j + 1>>], u[<<r, j - 1>>]),
                        RMul(RInt(2), u[<<r, j>>])))),
         RMul(dt, F(t[r], x[j])))

\* C11: after the heat time loop, the first column holds h_1 and the last
\* column holds h_2 in every time row, whatever g_0, h_1, h_2 and f are.
C11_HeatBoundaryColumns ==
    HeatDone =>
        \A r \in 0..(N_t - 1) :
            /\ u[<<r, 0>>] = RInt(h_1)
            /\ u[<<r, N_x - 1>>] = RInt(h_2)
\* A finished heat run in which g_0 disagrees with both boundary values at
\* the end points and the source is not zero.
C11_Witness ==
    /\ HeatDone /\ N_t >= 3 /\ N_x >= 3 /\ f = <<1>>
    /\ G0(x[0]) # RInt(h_1) /\ G0(x[N_x - 1]) # RInt(h_2)

\* C12 (as stated): after the heat time loop, row 0 equals g_0(x_j) at every
\* column j, the two end columns included.
C12_InitialRowWholeIsG0 ==
    HeatDone => \A j \in 0..(N_x - 1) : u[<<0, j>>] = G0(x[j])
\* C12 (amended): after the heat time loop, row 0 equals g_0(x_j) at the
\* interior columns 1..N_x-2, and holds h_1 and h_2 at the two end columns.
C12_InitialRowInteriorIsG0 ==
    HeatDone =>
        /\ \A j \in 1..(N_x - 2) : u[<<0, j>>] = G0(x[j])
        /\ u[<<0, 0>>] = RInt(h_1)
        /\ u[<<0, N_x - 1>>] = RInt(h_2)
\* A finished heat run with two interior columns, g_0 not zero on one of
\* them, and g_0 different from h_1 at the first column.
C12_Witness ==
    /\ HeatDone /\ N_x >= 4
    /\ \E j \in 1..(N_x - 2) : G0(x[j]) # RZero
    /\ G0(x[0]) # RInt(h_1)

\* C13: after the heat time loop, every interior entry of every row after
\* the first is the forward-Euler update of the row before it:
\* u[i+1,j] = u[i,j] + (a*dt/dx^2)(u[i,j+1] + u[i,j-1] - 2u[i,j]) + dt*f(t_i,x_j).
C13_ForwardEulerUpdate ==
    HeatDone =>
        \A r \in 0..(N_t - 2) : \A j \in 1..(N_x - 2) :
            u[<<r + 1, j>>] = EulerStep(r, j)
\* A finished heat run of at least two steps with a source and a row 0
\* that is not flat, so that every term of the update is non-zero.
C13_Witness ==
    /\ HeatDone /\ N_t >= 3 /\ N_x >= 4 /\ f = <<1>> /\ g_0 = <<1, 1>>
    /\ u[<<2, 1>>] # u[<<1, 1>>]
    /\ u[<<1, 1>>] # u[<<0, 1>>]

\* C14: with zero source and a*dt/dx^2 <= 1/2, the largest absolute value
\* of a time row never grows from one row to the next.
C14_MaximumPrinciple ==
    (HeatDone /\ ZeroSource /\ RLeq(StabilityRatio, RHalf)) =>
        \A r \in 0..(N_t - 2) : RLeq(RowMax(r + 1), RowMax(r))
\* A finished stable run of at least two steps whose rows are not constant
\* in time.
C14_Witness ==
    /\ HeatDone /\ ZeroSource /\ RLeq(StabilityRatio, RHalf)
    /\ N_t >= 3 /\ N_x >= 3
    /\ \E j \in 1..(N_x - 2) : u[<<1, j>>] # u[<<0, j>>]
    /\ \E j \in 1..(N_x - 2) : u[<<2, j>>] # u[<<1, j>>]

StepOfAxis(st, start, end, count) ==
    /\ RMul(st, RInt(count)) = RSub(end, start)
    /\ (RLess(start, end) /\ count >= 2) => RLess(RZero, st)

\* C16: once the grid cell of an example has run, each step size the
\* example uses (dx, dt, and dy in 2-D) is exactly (end - start)/count of
\* its axis, and is strictly positive when end > start and count >= 2.
C16_StepIsExtentOverCount ==
    pc # "grid" =>
        /\ StepOfAxis(dx, x_1, x_2, N_x)
        /\ StepOfAxis(dt, RZero, t_f, N_t)
        /\ Wave2D => StepOfAxis(dy, y_1, y_2, N_y)
\* The heat grid cell has run on a four-point axis: dx is 6/4 while the
\* coordinates it built are 2 apart.
C16_Witness ==
    /\ Heat /\ pc = "step" /\ i_heat = 0 /\ N_x = 4 /\ N_t = 3
    /\ dx = <<3, 2>>
    /\ RSub(x[1], x[0]) = RInt(2)

\* C17 (as stated): on a grid with an axis of fewer than two samples or
\* with end <= start, the grid cell fails with a configuration error and
\* nothing is stepped or solved: the run never gets past the grid cell.
C17_DegenerateGridRejected ==
    Degenerate => pc \in {"grid", "ConfigurationError"}

(***************************************************************************)
(* Cells run out of order: vocabulary of the properties.                   *)
(***************************************************************************)
\* The number of unknowns of the running wave example.
Unknowns == IF example = "wave2d" THEN N_t * N_x * N_y ELSE N_t * N_x
\* An example was run to its end before the user picked a cell again.
SolvedBefore == \E n \in 1..Len(jumps) : jumps[n][1] = "done"
\* The step runs the cell pc names (it is not the user picking a cell).
RunsCell == pc' \notin Cells

\* C18: when the solve cell runs on a number of equations different from
\* the number of unknowns, it ends in the dimension-mismatch error
\* (ValueError of np.reshape) and the field u is left as it was.
C18_MismatchFailsBeforeSolve ==
    [][(/\ example # "heat" /\ pc = "solve" /\ RunsCell
        /\ Count(eqs) # Unknowns)
       => (pc' = "ValueError" /\ u' = u)]_vars
\* The stencil cell was run twice: the solve cell stopped with one equation
\* too many and u still holds the zeros of the grid cell.
C18_Witness ==
    /\ Wave1D /\ pc = "ValueError"
    /\ jumps = << <<"ivp", "stencil">> >>
    /\ Count(eqs) = Unknowns + 1
    /\ u = Zeros2

RECURSIVE RSum(_)
RSum(seq) == IF seq = << >> THEN RZero ELSE RAdd(Head(seq), RSum(Tail(seq)))

\* The grid is the one the current parameters give.
GridOfParams ==
    /\ dx = RDiv(RSub(x_2, x_1), RInt(N_x))
    /\ dt = RDiv(t_f, RInt(N_t))
    /\ x = Linspace(x_1, x_2, N_x)
    /\ t = Linspace(RZero, t_f, N_t)
    /\ Wave2D => /\ dy = RDiv(RSub(y_2, y_1), RInt(N_y))
                 /\ y = Linspace(y_1, y_2, N_y)

\* The heat field is the one the current parameters and grid give: the
\* boundary columns, the initial row, and each later row from the row
\* before it.
HeatFieldOfParams ==
    /\ DOMAIN u = Idx2
    /\ \A k \in Idx2 :
        u[k] = IF k[2] = N_x - 1 THEN RInt(h_2)
               ELSE IF k[2] = 0 THEN RInt(h_1)
               ELSE IF k[1] = 0 THEN G0(x[k[2]])
               ELSE EulerStep(k[1] - 1, k[2])

\* The equations, in order, that the assembly cells of the running wave
\* example append on the current parameters and grid.
SystemOfParams ==
    IF Wave1D
    THEN [n \in 1..Len(W1_StencilLoop) |->
             <<W1_StencilMat(W1_StencilLoop[n][1], W1_StencilLoop[n][2]),
               W1_StencilCol(W1_StencilLoop[n][1], W1_StencilLoop[n][2])>>]
         \o [n \in 1..Len(W1_DirichletLoop) |->
             <<W1_DirichletMat(W1_DirichletLoop[n]),
               W1_DirichletCol(W1_DirichletLoop[n])>>]
         \o [n \in 1..Len(W1_NeumannLoop) |->
             <<W1_NeumannMat(W1_NeumannLoop[n]),
               W1_NeumannCol(W1_NeumannLoop[n])>>]
         \o [n \in 1..Len(W1_BoundsLoop) |->
             <<W1_LowerMat(W1_BoundsLoop[n]), RInt(h_1)>>]
         \o [n \in 1..Len(W1_BoundsLoop) |->
             <<W1_UpperMat(W1_BoundsLoop[n]), RInt(h_2)>>]
    ELSE [n \in 1..Len(W2_StencilLoop) |->
             <<W2_StencilMat(W2_StencilLoop[n][1], W2_StencilLoop[n][2],
                             W2_StencilLoop[n][3]),
               W2_StencilCol(W2_StencilLoop[n][1], W2_StencilLoop[n][2],
                             W2_StencilLoop[n][3])>>]
         \o [n \in 1..Len(W2_DirichletLoop) |->
             <<W2_DirichletMat(W2_DirichletLoop[n][1], W2_DirichletLoop[n][2]),
               W2_DirichletCol(W2_DirichletLoop[n][1], W2_DirichletLoop[n][2])>>]
         \o [n \in 1..Len(W2_NeumannLoop) |->
             <<W2_NeumannMat(W2_NeumannLoop[n][1], W2_NeumannLoop[n][2]),
               W2_NeumannCol(W2_NeumannLoop[n][1], W2_NeumannLoop[n][2])>>]
         \o [n \in 1..Len(W2_XBoundsLoop) |->
             <<W2_LowerXMat(W2_XBoundsLoop[n][1], W2_XBoundsLoop[n][2]), RInt(h_1)>>]
         \o [n \in 1..Len(W2_XBoundsLoop) |->
             <<W2_UpperXMat(W2_XBoundsLoop[n][1], W2_XBoundsLoop[n][2]), RInt(h_2)>>]
         \o [n \in 1..Len(W2_YBoundsLoop) |->
             <<W2_LowerYMat(W2_YBoundsLoop[n][1], W2_YBoundsLoop[n][2]), RInt(h_1)>>]
         \o [n \in 1..Len(W2_YBoundsLoop) |->
             <<W2_UpperYMat(W2_YBoundsLoop[n][1], W2_YBoundsLoop[n][2]), RInt(h_2)>>]

\* The unknowns in row-major order.
IdxSeq ==
    [q \in 1..Unknowns |-> IF Wave1D THEN Unflat2(q - 1) ELSE Unflat3(q - 1)]

\* The field v satisfies the equation <<mat, rhs>>.
Satisfies(v, eq) ==
    RSum([q \in 1..Unknowns |-> RMul(eq[1][IdxSeq[q]], v[IdxSeq[q]])]) = eq[2]

\* The assembled lists are exactly the equations of the current parameters.
ListsOfParams ==
    \E sys \in {SystemOfParams} :
        /\ eqs = [n \in 1..Len(sys) |-> sys[n][1]]
        /\ col = [n \in 1..Len(sys) |-> sys[n][2]]

\* The wave field solves the equations of the current parameters.
WaveFieldOfParams ==
    /\ DOMAIN u = Idx
    /\ \E sys \in {SystemOfParams} :
        /\ Len(sys) = Unknowns
        /\ \A n \in 1..Len(sys) : Satisfies(u, sys[n])

\* C20: whatever example ran before in the same kernel, a run of an
\* example from its parameter cells works on the grid, the equations and
\* the field that its own parameters give: nothing a previous example left
\* behind shows in them.
C20_RunDependsOnOwnParameters ==
    /\ pc # "grid" => GridOfParams
    /\ (~Heat /\ Assembled) => ListsOfParams
    /\ (~Heat /\ Solved) => WaveFieldOfParams
    /\ HeatDone => HeatFieldOfParams
\* A 1-D wave run has ended after a heat run with another final time: a
\* and the heat field's time step are left over, the field is not zero.
C20_Witness ==
    /\ Wave1D /\ Solved /\ runs = 1
    /\ a # Unset
    /\ u # Zeros2

(***************************************************************************)
(* Emission order.                                                         *)
(***************************************************************************)
\* The lists are being assembled or are complete (still Python lists).
Assembling == ~Heat /\ pc \in {"stencil", "ivp", "bounds", "solve"}
\* The initial-condition equations: value and time-derivative at time 0.
InitialEqs == IvpDirichletEqs \cup NeumannEqs
\* The spatial-boundary equations.
BoundEqs == XBoundEqs \cup YBoundEqs
\* The time index of the unknown a value equation is addressed to.
TimeOf(m) == {k[1] : k \in ValueAddr(m)}

\* C21: in the lists of a wave example every initial-condition equation
\* (addressed to time index 0, one value equation for every spatial index)
\* stands before every spatial-boundary equation (addressed to a time
\* index >= 1).
C21_InitialBeforeBoundary ==
    Assembling =>
        /\ \A m \in InitialEqs : \A n \in BoundEqs : m < n
        /\ \A m \in IvpDirichletEqs : TimeOf(eqs[m]) = {0}
        /\ \A n \in BoundEqs : \A r \in TimeOf(eqs[n]) : r >= 1
        /\ BoundEqs # {} =>
               UNION {ValueAddr(eqs[m]) : m \in IvpDirichletEqs}
                   = {k \in Idx : k[1] = 0}
\* A complete 1-D system holding Dirichlet, Neumann and boundary equations.
C21_Witness ==
    /\ Wave1D /\ Assembled /\ N_t >= 3 /\ N_x >= 3
    /\ IvpDirichletEqs # {} /\ NeumannEqs # {} /\ XBoundEqs # {}
    /\ tag[Len(tag)].kind = "upper_x"

(***************************************************************************)
(* The heat loop: termination and frame.                                   *)
(***************************************************************************)
\* The interior columns of the heat field.
Interior == 1..(N_x - 2)

\* C22: the heat loop takes its iterations i = 0, 1, ..., N_t-2 in order,
\* one step each, and ends only after the last one (exactly N_t-1 steps,
\* none when N_t = 1); once started it always ends; and when it has ended
\* every interior entry of rows 1..N_t-1 holds the update of the row
\* before it.
C22_StepsThenEnds ==
    /\ [][(Heat /\ pc = "step") =>
            \/ /\ i_heat < N_t - 1
               /\ i_heat' = i_heat + 1
               /\ pc' = "step"
            \/ /\ i_heat = N_t - 1
               /\ i_heat' = i_heat
               /\ pc' = "done"
               /\ u' = u]_vars
    /\ [](HeatDone =>
            /\ i_heat = N_t - 1
            /\ \A r \in 1..(N_t - 1) : \A j \in Interior :
                   u[<<r, j>>] = EulerStep(r - 1, j))
    /\ (Heat /\ pc = "step") ~> HeatDone
\* The loop has ended after three steps on a grid with interior points and
\* the last row is not zero.
C22_Witness ==
    /\ HeatDone /\ N_t = 4 /\ i_heat = 3 /\ N_x >= 3
    /\ u[<<3, 1>>] # RZero

\* C23: iteration i of the heat loop computes the interior entries of row
\* i+1 from row i and the source term, and changes nothing else: every
\* other row and both end entries of every row keep their values.
C23_StepFrame ==
    [][(Heat /\ pc = "step" /\ i_heat' = i_heat + 1) =>
          /\ DOMAIN u' = DOMAIN u
          /\ \A k \in Idx2 :
                IF k[1] = i_heat + 1 /\ k[2] \in Interior
                THEN u'[k] = EulerStep(i_heat, k[2])
                ELSE u'[k] = u[k]]_vars
\* Two iterations have run on a grid with non-zero boundary values and
\* have changed the interior.
C23_Witness ==
    /\ Heat /\ pc = "step" /\ i_heat = 2 /\ N_t = 4 /\ N_x >= 3
    /\ h_1 = 1 /\ h_2 = 1
    /\ u[<<2, 1>>] # u[<<1, 1>>]
    /\ u[<<1, 1>>] # u[<<0, 1>>]

(***************************************************************************)
(* The 1-D wave system and explicit marching.                              *)
(***************************************************************************)
\* (c*dt/dx)^2
Courant2 == RMul(RDiv(RMul(c, dt), dx), RDiv(RMul(c, dt), dx))
\* 2u[i,j] - u[i-1,j] + (c*dt/dx)^2 (u[i,j+1] + u[i,j-1] - 2u[i,j])
\*   + dt^2 f(t_i, x_j)
MarchStep(r, j) ==
    RAdd(RAdd(RSub(RMul(RInt(2), u[<<r, j>>]), u[<<r - 1, j>>]),
              RMul(Courant2,
                   RSub(RAdd(u[<<r, j + 1>>], u[<<r, j - 1>>]),
                        RMul(RInt(2), u[<<r, j>>])))),
         RMul(RMul(dt, dt), F(t[r], x[j])))
\* The field is the one explicit marching produces.
Marched ==
    /\ \A j \in 0..(N_x - 1) : u[<<0, j>>] = G0(x[j])
    /\ \A r \in 1..(N_t - 1) :
           /\ u[<<r, 0>>] = RInt(h_1)
           /\ u[<<r, N_x - 1>>] = RInt(h_2)
    /\ \A j \in Interior : RSub(u[<<1, j>>], u[<<0, j>>]) = W1_NeumannCol(j)
    /\ \A r \in 1..(N_t - 2) : \A j \in Interior :
           u[<<r + 1, j>>] = MarchStep(r, j)

StencilWrites(k) ==
    {k} \cup {[k EXCEPT ![ax] = @ + d] : ax \in 1..Len(k), d \in {-1, 1}}
\* mat[0,j] = 1 (mat[0,j,k] = 1) for spatial loop variables s.
DirichletWrites(s) == {<<0>> \o s}
\* mat[0+1,j] = 1 ; mat[0,j] = -1 for spatial loop variables s.
NeumannWrites(s) == {<<0 + 1>> \o s, <<0>> \o s}
\* The index expressions written for the equation with tag g.
WritesOf(g) ==
    IF g.kind = "stencil" THEN StencilWrites(g.at)
    ELSE IF g.kind = "dirichlet" THEN DirichletWrites(g.at)
    ELSE NeumannWrites(g.at)
\* Every component of every index in S is >= 0 and < its axis length.
Inside(S) == S \subseteq Idx

GridMade == dx # Unset /\ x # Unset /\ t # Unset

\* C26: once a grid cell has run, the step sizes of the coefficients are
\* the distances between consecutive coordinates: dx = x[j+1] - x[j] for
\* every j in 0..N_x-2 and dt = t[i+1] - t[i] for every i in 0..N_t-2.
C26_StepIsCoordinateSpacing ==
    GridMade =>
        /\ \A j \in 0..(N_x - 2) : RSub(x[j + 1], x[j]) = dx
        /\ \A r \in 0..(N_t - 2) : RSub(t[r + 1], t[r]) = dt

====
